---- MODULE Spec2Model ----
(***************************************************************************)
(* Radiosonde telemetry pipeline: MQTT on_message (identity resolution,   *)
(* normalisation, deduplication, persistence) and its two sinks, the      *)
(* APRS-IS uploader (aprs.py) and the SondeHub uploader (sondehub.py).    *)
(*                                                                         *)
(* Text values are sequences of one-character strings, so that strip,     *)
(* lower, startswith, slicing and digit filtering are computed as Python  *)
(* computes them.  An optional value is <<>> (None / key absent) or <<v>>. *)
(***************************************************************************)
EXTENDS Integers, Sequences, FiniteSets, TLC

---------------------------------------------------------------------------
(* Optional values and Python truthiness *)

None == <<>>

Some(v) == <<v>>

Val(o) == o[1]

\* bool(x) of an optional number: None and 0 are falsy
TruthyN(o) == o # None /\ Val(o) # 0

\* bool(x) of an optional text: None and "" are falsy
TruthyS(o) == o # None /\ Len(Val(o)) > 0

\* a or b, on optional numbers / optional texts
OrN(a, b) == IF TruthyN(a) THEN a ELSE b

OrS(a, b) == IF TruthyS(a) THEN a ELSE b

---------------------------------------------------------------------------
(* Text primitives (str methods used by the code) *)

Digits == {"0","1","2","3","4","5","6","7","8","9"}

\* c.lower() / c.upper() of one character
LowerChar(c) ==
    CASE c = "A" -> "a" [] c = "B" -> "b" [] c = "C" -> "c" [] c = "D" -> "d"
      [] c = "E" -> "e" [] c = "F" -> "f" [] c = "G" -> "g" [] c = "H" -> "h"
      [] c = "I" -> "i" [] c = "J" -> "j" [] c = "K" -> "k" [] c = "L" -> "l"
      [] c = "M" -> "m" [] c = "N" -> "n" [] c = "O" -> "o" [] c = "P" -> "p"
      [] c = "Q" -> "q" [] c = "R" -> "r" [] c = "S" -> "s" [] c = "T" -> "t"
      [] c = "U" -> "u" [] c = "V" -> "v" [] c = "W" -> "w" [] c = "X" -> "x"
      [] c = "Y" -> "y" [] c = "Z" -> "z" [] OTHER -> c

UpperChar(c) ==
    CASE c = "a" -> "A" [] c = "b" -> "B" [] c = "c" -> "C" [] c = "d" -> "D"
      [] c = "e" -> "E" [] c = "f" -> "F" [] c = "g" -> "G" [] c = "h" -> "H"
      [] c = "i" -> "I" [] c = "j" -> "J" [] c = "k" -> "K" [] c = "l" -> "L"
      [] c = "m" -> "M" [] c = "n" -> "N" [] c = "o" -> "O" [] c = "p" -> "P"
      [] c = "q" -> "Q" [] c = "r" -> "R" [] c = "s" -> "S" [] c = "t" -> "T"
      [] c = "u" -> "U" [] c = "v" -> "V" [] c = "w" -> "W" [] c = "x" -> "X"
      [] c = "y" -> "Y" [] c = "z" -> "Z" [] OTHER -> c

\* str.lower()
Lower(s) == [i \in 1..Len(s) |-> LowerChar(s[i])]

\* str.upper()
Upper(s) == [i \in 1..Len(s) |-> UpperChar(s[i])]

\* str.strip(): leading and trailing blanks removed
Strip(s) ==
    LET nb == {i \in 1..Len(s) : s[i] # " "}
    IN  IF nb = {} THEN <<>>
        ELSE LET lo == CHOOSE i \in nb : \A j \in nb : i <= j
                 hi == CHOOSE i \in nb : \A j \in nb : i >= j
             IN  SubSeq(s, lo, hi)

\* str.startswith(p)
StartsWith(s, p) == Len(s) >= Len(p) /\ SubSeq(s, 1, Len(p)) = p

\* c in s, for a one-character c
HasChar(s, c) == \E i \in 1..Len(s) : s[i] = c

\* s[n:], n >= 0
DropFirst(s, n) == IF n >= Len(s) THEN <<>> ELSE SubSeq(s, n + 1, Len(s))

\* s[:n], n >= 0
TakeFirst(s, n) == IF n >= Len(s) THEN s ELSE SubSeq(s, 1, n)

\* s[-n:], n > 0
TakeLast(s, n) == IF n >= Len(s) THEN s ELSE SubSeq(s, Len(s) - n + 1, Len(s))

\* ''.join(filter(str.isdigit, s))
DigitsOf(s) == SelectSeq(s, LAMBDA c : c \in Digits)

\* str.isdigit(): non-empty and all digits
IsDigitStr(s) == Len(s) > 0 /\ \A i \in 1..Len(s) : s[i] \in Digits

\* position of the first / last occurrence of c in s, 0 when there is none
FirstIndex(s, c) ==
    IF HasChar(s, c)
    THEN CHOOSE i \in 1..Len(s) : s[i] = c /\ \A j \in 1..(i - 1) : s[j] # c
    ELSE 0

LastIndex(s, c) ==
    IF HasChar(s, c)
    THEN CHOOSE i \in 1..Len(s) : s[i] = c /\ \A j \in (i + 1)..Len(s) : s[j] # c
    ELSE 0

\* s.split(c)[-1]
AfterLast(s, c) == DropFirst(s, LastIndex(s, c))

\* s.split(c)[1]; the caller checks that c occurs (else IndexError)
SplitSecond(s, c) ==
    LET rest == DropFirst(s, FirstIndex(s, c))
        nxt  == FirstIndex(rest, c)
    IN  IF nxt = 0 THEN rest ELSE TakeFirst(rest, nxt - 1)

---------------------------------------------------------------------------
(* Text literals of the code *)

RS41 == <<"R","S","4","1">>

RS92 == <<"R","S","9","2">>

DFM == <<"D","F","M">>

M20 == <<"M","2","0">>

M10 == <<"M","1","0">>

---------------------------------------------------------------------------
(* Dictionaries keyed by text: a function whose DOMAIN is the set of keys *)

EmptyDict == [k \in {} |-> None]

DictPut(d, k, v) == [x \in DOMAIN d \cup {k} |-> IF x = k THEN v ELSE d[x]]

DictDel(d, k) == [x \in DOMAIN d \ {k} |-> d[x]]

\* d.get(k, dflt)
DictGet(d, k, dflt) == IF k \in DOMAIN d THEN d[k] ELSE dflt

---------------------------------------------------------------------------
(* Identity resolution: on_message, "Define APRS ser / Payload_ID" *)

\* subtype.split(":", 1)[1] if ":" in subtype else subtype
clean_subtype(subtype) ==
    IF ~TruthyS(subtype) THEN None
    ELSE IF HasChar(Val(subtype), ":")
         THEN Some(DropFirst(Val(subtype), FirstIndex(Val(subtype), ":")))
         ELSE subtype

\* source_key = raw.get("source") or data.get("rawid") or data.get("id")
SourceKey(m) == OrS(OrS(m.source, m.rawid), m.id)

\* source_key in dfm_id_cache  (None is never a key)
CachedFor(cache, sk) == sk # None /\ Val(sk) \in DOMAIN cache

\* if sonde_type != "DFM" and source_key in dfm_id_cache: del dfm_id_cache[source_key]
EvictMutantNever(cache, m) == cache

Evict(cache, m) ==
    IF m.type # Some(DFM) /\ CachedFor(cache, SourceKey(m))
    THEN DictDel(cache, Val(SourceKey(m)))
    ELSE cache

\* M20: "ME" + rawid.split("_")[1][:2] + id.split("-")[-1][-5:]; None when the
\* split raises IndexError (no "_" in rawid), which the code swallows
M20Serial(m) ==
    IF ~HasChar(Val(m.rawid), "_") THEN None
    ELSE Some(<<"M","E">> \o TakeFirst(SplitSecond(Val(m.rawid), "_"), 2)
                          \o TakeLast(AfterLast(Val(m.id), "-"), 5))

\* DFM with an id: "D" + digits of the id
DfmSerialMutantWhole(m) == <<"D">> \o Val(m.id)

DfmSerial(m) == <<"D">> \o DigitsOf(Val(m.id))

\* the cache write of the DFM branch:
\* if source_key and ser_value and ser_value != "D": dfm_id_cache[source_key] = ser_value
DfmCache(cache, m) ==
    IF TruthyS(SourceKey(m)) /\ DfmSerial(m) # <<"D">>
    THEN DictPut(cache, Val(SourceKey(m)), DfmSerial(m))
    ELSE cache

\* the cache read of the DFM branch: elif source_key in dfm_id_cache
DfmLookupMutantAny(cache, m) ==
    IF CachedFor(cache, SourceKey(m)) THEN Some(cache[Val(SourceKey(m))])
    ELSE IF DOMAIN cache # {}
         THEN Some(cache[CHOOSE k \in DOMAIN cache : TRUE])
         ELSE None

DfmLookupMutantNone(cache, m) == None

DfmLookup(cache, m) ==
    IF CachedFor(cache, SourceKey(m)) THEN Some(cache[Val(SourceKey(m))]) ELSE None

\* the if / elif chain: aprsid, M20, DFM.  [ser, cache] after it
ResolveRules(cache0, m) ==
    LET cache == Evict(cache0, m)
    IN  IF TruthyS(m.aprsid)
        THEN [ser |-> m.aprsid, cache |-> cache]
        ELSE IF m.type = Some(M20) /\ m.rawid # None /\ m.id # None
        THEN [ser |-> M20Serial(m), cache |-> cache]
        ELSE IF m.type = Some(DFM)
        THEN IF TruthyS(m.id)
             THEN [ser |-> Some(DfmSerial(m)), cache |-> DfmCache(cache, m)]
             ELSE [ser |-> DfmLookup(cache, m), cache |-> cache]
        ELSE [ser |-> None, cache |-> cache]

\* fallback: if not ser_value: ser_value = data.get("id") or raw.get("source")
ResolveMutantNoFallback(cache0, m) ==
    LET r == ResolveRules(cache0, m)
    IN  [ser |-> r.ser, cache |-> r.cache]

Resolve(cache0, m) ==
    LET r == ResolveRules(cache0, m)
    IN  [ser   |-> IF TruthyS(r.ser) THEN r.ser ELSE OrS(m.id, m.source),
         cache |-> r.cache]

\* the placeholder test on s = ser_value.strip().lower()
IsPlaceholderMutantNoD(ser) ==
    LET s == Lower(Strip(ser))
    IN  (StartsWith(s, <<"d","f","m","-">>) \/ StartsWith(s, <<"d","-">>)
            \/ StartsWith(s, <<"d">>))
        /\ HasChar(s, "x")

IsPlaceholder(ser) ==
    LET s == Lower(Strip(ser))
    IN  \/ s = <<"d">>
        \/ /\ (StartsWith(s, <<"d","f","m","-">>) \/ StartsWith(s, <<"d","-">>)
                  \/ StartsWith(s, <<"d">>))
           /\ HasChar(s, "x")

---------------------------------------------------------------------------
(* Configuration defaults (settings.ini fallbacks) *)

APRS_INTERVAL == 20

APRS_BEACON_INTERVAL == 600

\* the wall clock when the process starts: far enough from the epoch that the
\* initial _last_beacon = 0 and _last_sent.get(ser, 0) lie outside both windows
StartTime == APRS_BEACON_INTERVAL + APRS_INTERVAL

VARIABLES
    APRS_UPLOAD,          \* aprs.py: config flag
    APRS_BEACON_ENABLE,   \* aprs.py: config flag
    SONDEHUB_ENABLED,     \* MQTT_OWRX_APRS.py: config flag
    now,                  \* time.time(), whole seconds
    nticks,               \* number of clock advances so far (bounded)
    store,                \* the Radiosonda table, rows in insertion order
    dfm_id_cache,         \* source key -> DFM serial
    sonde_freq_cache,     \* ser -> freq
    _sock,                \* aprs.py: "none" or "open"
    _last_beacon,         \* aprs.py
    _last_sent,           \* aprs.py: ser -> timestamp
    _uploader,            \* sondehub.py: TRUE when an uploader exists
    _recent_packets,      \* sondehub.py: set of <<serial, frame>>
    _serial_queues,       \* sondehub.py: serial -> list of packets
    enabled,              \* sondehub.py: _uploader.enabled
    pc,                   \* thread -> where it stands in its sink call
    _lock,                \* aprs.py: "free" or the thread holding _lock
    _stop,                \* aprs.py: set by stop(), read by _aprs_loop
    conns,                \* every APRS-IS connection created so far (observer)
    cur,                  \* the connection _sock refers to, 0 when None
    call,                 \* aprs.py: argument of the send_telemetry in progress
    _serial_lock,         \* sondehub.py: "free" or the thread holding it
    batch,                \* sondehub.py: send_telemetry's local batch
    handed,               \* packets handed to upload_telemetry (observer)
    held,                 \* packets queued when stop() was entered (observer)
    puts,                 \* packets an HTTP PUT was attempted for (observer)
    _last_station_upload, \* sondehub.py: SondeHubUploader._last_station_upload
    station,              \* record of the latest upload_station call (observer)
    last                  \* record of what the most recent step did (observer)

vars == <<APRS_UPLOAD, APRS_BEACON_ENABLE, SONDEHUB_ENABLED, now, nticks, store,
          dfm_id_cache, sonde_freq_cache, _sock, _last_beacon, _last_sent,
          _uploader, _recent_packets, _serial_queues, enabled, pc, _lock, _stop,
          conns,
          cur, call, _serial_lock, batch, held, handed, puts, _last_station_upload,
          station, last>>

\* the variables only the thread-level specifications move
threadVars == <<pc, _lock, _stop, conns, cur, call, _serial_lock, batch, held, handed, puts,
                _last_station_upload, station>>

---------------------------------------------------------------------------
(* Normalisation: on_message, from "time" to the Radiosonda(...) row *)

\* a JSON value of a type the arithmetic cannot use (a string for a number)
WrongType == <<0, 0>>

\* ts = ts_raw // 1000 raises TypeError on such a timestamp
TsRaisesMutantAlways(m) == TRUE

TsRaises(m) == m.timestamp = WrongType

\* ts_raw = raw.get("timestamp", int(time.time() * 1000))
TsRaw(m, t) == IF m.timestamp # None THEN Val(m.timestamp) ELSE t * 1000

\* Radiosonda.query.filter_by(ser=ser_value, vframe=vframe_value).first()
ExistingMutantBySecond(rows, ser, vframe) ==
    \E i \in 1..Len(rows) :
        rows[i].ser = ser /\ rows[i].time = vframe \div 1000

ExistingMutantNever(rows, ser, vframe) == FALSE

Existing(rows, ser, vframe) ==
    \E i \in 1..Len(rows) : rows[i].ser = ser /\ rows[i].vframe = vframe

\* round(hs_ms / 3.6, 1), in tenths (no input is a rounding tie: 25 v / 9 is
\* never a half-integer)
KmhTenths(v) == (200 * v + 36) \div 72

\* freq_rx = raw.get("freq", data.get("tx_frequency")) or raw.get("freq")
FreqRx(m) == OrN(IF m.freq # None THEN m.freq ELSE m.tx_frequency, m.freq)

\* if ser_value in sonde_freq_cache: freq_final = cache else freq_rx
FreqFinalMutantFresh(fcache, ser, m) ==
    IF FreqRx(m) # None THEN FreqRx(m) ELSE DictGet(fcache, ser, None)

FreqFinal(fcache, ser, m) ==
    IF ser \in DOMAIN fcache THEN fcache[ser] ELSE FreqRx(m)

\* if freq_final: sonde_freq_cache[ser_value] = freq_final   (first time only)
FreqCacheMutantRounded(fcache, ser, m) ==
    IF ser \notin DOMAIN fcache /\ TruthyN(FreqRx(m))
    THEN DictPut(fcache, ser, Some((Val(FreqRx(m)) \div 1000000) * 1000000))
    ELSE fcache

FreqCache(fcache, ser, m) ==
    IF ser \notin DOMAIN fcache /\ TruthyN(FreqRx(m))
    THEN DictPut(fcache, ser, FreqRx(m))
    ELSE fcache

\* Radiosonda.query.filter_by(ser=ser).order_by(Radiosonda.vframe.desc()).first()
Latest(rows, ser) ==
    LET mine == {i \in 1..Len(rows) : rows[i].ser = ser}
    IN  IF mine = {} THEN None
        ELSE Some(rows[CHOOSE i \in mine :
                          \A j \in mine : rows[j].vframe <= rows[i].vframe])

\* "FIX RS41 subtype handling": the message's own subtype
OwnType(m) ==
    LET model == clean_subtype(m.subtype)
    IN  IF m.type = Some(RS41) /\ TruthyS(model) /\ StartsWith(Val(model), RS41)
        THEN model
        ELSE m.type

\* "Keep last known RS41 subtype for this sonde": look back at the store
StickyType(rows, ser, m) ==
    LET t1  == OwnType(m)
        lst == Latest(rows, ser)
    IN  IF t1 = Some(RS41) /\ Len(ser) > 0 /\ lst # None
           /\ TruthyS(Val(lst).type)
           /\ StartsWith(Val(Val(lst).type), <<"R","S","4","1","-">>)
        THEN Val(lst).type
        ELSE t1

\* type=sonde_model if sonde_type == "DFM" else sonde_type
RowType(rows, ser, m) ==
    IF StickyType(rows, ser, m) = Some(DFM)
    THEN clean_subtype(m.subtype)
    ELSE StickyType(rows, ser, m)

\* new_entry = Radiosonda(...)
Row(rows, fcache, ser, m, t) ==
    [ lat       |-> m.lat,
      lon       |-> m.lon,
      alt       |-> m.alt,
      speed     |-> IF m.vel_h # None THEN Some(KmhTenths(Val(m.vel_h))) ELSE None,
      dir       |-> m.heading,
      type      |-> RowType(rows, ser, m),
      ser       |-> ser,
      time      |-> TsRaw(m, t) \div 1000,
      sats      |-> m.sats,
      freq      |-> FreqFinal(fcache, ser, m),
      rssi      |-> None,
      vs        |-> m.vel_v,
      hs        |-> m.vel_h,
      climb     |-> m.vel_v,
      temp      |-> OrN(m.temp, None),
      humidity  |-> OrN(m.humidity, None),
      frame     |-> m.frame,
      vframe    |-> TsRaw(m, t),
      launchsite |-> m.id,
      batt      |-> OrN(m.batt, None) ]

\* on_message from the payload to the Radiosonda(...) row, without the commit:
\* the observation built (None when the message is dropped before) and both
\* caches after it
Normalize(cache, fcache, rows, m, t) ==
    LET r    == Resolve(cache, m)
        kept == /\ m.mode = "SONDE" /\ TruthyS(r.ser)
                /\ ~IsPlaceholder(Val(r.ser)) /\ ~TsRaises(m)
    IN  [ obs    |-> IF kept THEN Some(Row(rows, fcache, Val(r.ser), m, t)) ELSE None,
          cache  |-> IF m.mode = "SONDE" THEN r.cache ELSE cache,
          fcache |-> IF kept THEN FreqCache(fcache, Val(r.ser), m) ELSE fcache ]

---------------------------------------------------------------------------
(* aprs.py.  A transport fault is an input of each call: the one socket     *)
(* operation ("connect", "login", "greeting", "beacon", "telemetry") that   *)
(* raises if the call attempts it, or "none".  The result records the       *)
(* socket operations attempted (ops) and how the call ended (end).          *)

Faults == {"none", "connect", "login", "greeting", "beacon", "telemetry"}

\* _connect(): create_connection, then the login line and the greeting
ConnectMutantKeep(sock, fault) == [ok |-> TRUE, sock |-> "open", ops |-> <<>>]

Connect(sock, fault) ==
    IF sock # "none" THEN [ok |-> TRUE, sock |-> sock, ops |-> <<>>]
    ELSE IF fault = "connect"
         THEN [ok |-> FALSE, sock |-> "none", ops |-> <<"connect">>]
    ELSE IF fault \in {"login", "greeting"}
         THEN [ok |-> FALSE, sock |-> "open", ops |-> <<"connect", "login">>]
    ELSE [ok |-> TRUE, sock |-> "open", ops |-> <<"connect", "login">>]

\* _send_beacon(): gated by APRS_BEACON_ENABLE and its own interval
Beacon(enable, lb, t, fault) ==
    IF ~enable \/ t - lb < APRS_BEACON_INTERVAL
    THEN [ok |-> TRUE, lb |-> lb, ops |-> <<>>]
    ELSE IF fault = "beacon"
         THEN [ok |-> FALSE, lb |-> lb, ops |-> <<"beacon">>]
         ELSE [ok |-> TRUE, lb |-> t, ops |-> <<"beacon">>]

\* the rate-limit test: now - _last_sent.get(ser, 0) < APRS_INTERVAL
RateLimitedMutantOff(ls, ser, t) == FALSE

RateLimited(ls, ser, t) == t - DictGet(ls, ser, 0) < APRS_INTERVAL

\* the values send_telemetry formats after the rate-limit stamp; a None among
\* speed, climb and freq raises TypeError there
FormatRaises(data) == data.speed = None \/ data.climb = None \/ data.freq = None

\* send_telemetry(data), from "ser = data.get('ser')" on; the session is open
SendBody(ls, data, t, fault) ==
    IF Len(data.ser) = 0 \/ IsPlaceholder(data.ser)
    THEN [end |-> "skipped", ls |-> ls, ops |-> <<>>]
    ELSE IF data.dir = None                         \* int(None): TypeError
    THEN [end |-> "error", ls |-> ls, ops |-> <<>>]
    ELSE IF data.lat = None \/ data.lon = None \/ data.alt = None
    THEN [end |-> "skipped", ls |-> ls, ops |-> <<>>]
    ELSE IF RateLimited(ls, data.ser, t)
    THEN [end |-> "ratelimited", ls |-> ls, ops |-> <<>>]
    ELSE IF FormatRaises(data)
    THEN [end |-> "error", ls |-> DictPut(ls, data.ser, t), ops |-> <<>>]
    ELSE IF fault = "telemetry"
    THEN [end |-> "error", ls |-> DictPut(ls, data.ser, t), ops |-> <<"telemetry">>]
    ELSE [end |-> "sent", ls |-> DictPut(ls, data.ser, t), ops |-> <<"telemetry">>]

\* send_telemetry(data): [sock, lb, ls, ops, end] after the call
AprsSend(upload, enable, sock, lb, ls, data, t, fault) ==
    IF ~upload
    THEN [sock |-> sock, lb |-> lb, ls |-> ls, ops |-> <<>>, end |-> "disabled"]
    ELSE
    LET c == Connect(sock, fault)
        b == Beacon(enable, lb, t, fault)
        s == SendBody(ls, data, t, fault)
    IN  IF ~c.ok
        THEN [sock |-> "none", lb |-> lb, ls |-> ls, ops |-> c.ops, end |-> "error"]
        ELSE IF ~b.ok
        THEN [sock |-> "none", lb |-> lb, ls |-> ls, ops |-> c.ops \o b.ops,
              end |-> "error"]
        ELSE [sock |-> IF s.end = "error" THEN "none" ELSE c.sock,
              lb   |-> b.lb,
              ls   |-> s.ls,
              ops  |-> c.ops \o b.ops \o s.ops,
              end  |-> s.end]

\* one iteration of _aprs_loop: connect if needed, beacon; on error close
AprsLoopIter(enable, sock, lb, t, fault) ==
    LET c == Connect(sock, fault)
        b == Beacon(enable, lb, t, fault)
    IN  IF ~c.ok
        THEN [sock |-> "none", lb |-> lb, ops |-> c.ops, end |-> "error"]
        ELSE IF ~b.ok
        THEN [sock |-> "none", lb |-> lb, ops |-> c.ops \o b.ops, end |-> "error"]
        ELSE [sock |-> c.sock, lb |-> b.lb, ops |-> c.ops \o b.ops, end |-> "ok"]

---------------------------------------------------------------------------
(* SondeHub packet: get_sondehub_serial, format_sondehub_packet *)

\* the manufacturer prefixes get_sondehub_serial strips, in the code's order
SerialPrefixes ==
    << <<"M","1","0","-">>, <<"M","2","0","-">>,
       <<"D","F","M","0","6","-">>, <<"D","F","M","0","9","-">>,
       <<"D","F","M","1","7","-">>, <<"D","F","M","-">>,
       <<"P","S","1","5","-">>, <<"P","S","-","1","5","-">>,
       <<"D","-">> >>

\* get_sondehub_serial(entry): None when no rule applies
get_sondehub_serial(entry) ==
    IF TruthyS(entry.type)
       /\ (StartsWith(Upper(Val(entry.type)), RS41)
             \/ StartsWith(Upper(Val(entry.type)), RS92))
    THEN Some(entry.ser)
    ELSE
    LET raw  == Strip(Val(OrS(entry.launchsite, Some(entry.ser))))
        hits == {i \in 1..Len(SerialPrefixes) : StartsWith(raw, SerialPrefixes[i])}
    IN  IF hits # {}
        THEN Some(DropFirst(raw,
                 Len(SerialPrefixes[CHOOSE i \in hits : \A j \in hits : i <= j])))
        ELSE IF StartsWith(raw, <<"D">>) /\ IsDigitStr(DropFirst(raw, 1))
        THEN Some(DropFirst(raw, 1))
        ELSE IF Len(raw) > 0 /\ raw[1] \in Digits
        THEN Some(raw)
        ELSE None

\* the "type" of the packet: the family the upper-cased row type starts with
PktType(raw_type) ==
    IF StartsWith(raw_type, RS41) THEN RS41
    ELSE IF StartsWith(raw_type, RS92) THEN RS92
    ELSE IF StartsWith(raw_type, M10) THEN M10
    ELSE IF StartsWith(raw_type, M20) THEN M20
    ELSE IF StartsWith(raw_type, DFM) \/ StartsWith(raw_type, <<"P","S">>) THEN DFM
    ELSE raw_type

\* format_sondehub_packet(entry, ...): [res, pkt]; res is "none" (returns None),
\* "raise" (escapes to on_message's except) or "ok"
format_sondehub_packet(entry) ==
    LET serial == get_sondehub_serial(entry)
        nopkt  == [serial |-> <<>>, frame |-> 0, type |-> <<>>]
    IN  IF entry.lat = None \/ entry.lon = None \/ entry.alt = None \/ serial = None
        THEN [res |-> "none", pkt |-> nopkt]
        ELSE IF entry.type = None            \* None.upper(): AttributeError
        THEN [res |-> "raise", pkt |-> nopkt]
        ELSE IF entry.frame = None           \* int(None): TypeError
        THEN [res |-> "raise", pkt |-> nopkt]
        ELSE IF PktType(Upper(Val(entry.type))) \notin {M10, M20}
                /\ entry.freq = None         \* None / 1e6: TypeError
        THEN [res |-> "raise", pkt |-> nopkt]
        ELSE [res |-> "ok",
              pkt |-> [serial |-> Val(serial),
                       frame  |-> Val(entry.frame),
                       type   |-> PktType(Upper(Val(entry.type)))]]

---------------------------------------------------------------------------
(* sondehub.py *)

\* stands for the 5000 of "if len(_recent_packets) > 5000: _recent_packets.clear()"
RECENT_CAPACITY == 1

\* key in _recent_packets
SeenMutantNever(recent, key) == FALSE

Seen(recent, key) == key \in recent

\* _recent_packets.add(key); if len(_recent_packets) > capacity: clear()
RememberMutantKeepNew(recent, key) ==
    IF Cardinality(recent \cup {key}) > RECENT_CAPACITY
    THEN {key}
    ELSE recent \cup {key}

Remember(recent, key) ==
    IF Cardinality(recent \cup {key}) > RECENT_CAPACITY
    THEN {}
    ELSE recent \cup {key}

\* SondeHubUploader.upload_telemetry(packets): the number of HTTP PUTs attempted
\* (the packets of one call share a serial: one PUT, no second attempt) and
\* how the PUT ended; fault "http" is an exception or a status outside
\* (200, 400, 409)
upload_telemetryMutantBlocked(en, packets, fault) ==
    IF ~en \/ packets = <<>> \/ fault \notin {"none", "http"}
    THEN [puts |-> 0, res |-> "-"]
    ELSE [puts |-> 1, res |-> IF fault = "http" THEN "failed" ELSE "ok"]

upload_telemetry(en, packets, fault) ==
    IF ~en \/ packets = <<>>
    THEN [puts |-> 0, res |-> "-"]
    ELSE [puts |-> 1, res |-> IF fault = "http" THEN "failed" ELSE "ok"]

\* retries=3 of SondeHubUploader.__init__; start() passes none
STATION_RETRIES == 3

\* the 21600 s of "if not force and (now - self._last_station_upload) < 21600"
STATION_INTERVAL == 21600

\* what one requests.put can end in: an exception, or a status code
Responses == {"exception", "200", "503", "404"}

\* the for loop of upload_station from attempt i on; resp[i] is what the
\* i-th requests.put ends in
RECURSIVE StationLoopMutantRetriesAll(_, _, _, _)
StationLoopMutantRetriesAll(resp, i, t, lastUp) ==
    IF i > STATION_RETRIES
    THEN [attempts |-> STATION_RETRIES, lastUp |-> lastUp, end |-> "failed"]
    ELSE IF resp[i] = "200"
    THEN [attempts |-> i, lastUp |-> t, end |-> "ok"]
    ELSE StationLoopMutantRetriesAll(resp, i + 1, t, lastUp)

RECURSIVE StationLoop(_, _, _, _)
StationLoop(resp, i, t, lastUp) ==
    IF i > STATION_RETRIES
    THEN [attempts |-> STATION_RETRIES, lastUp |-> lastUp, end |-> "failed"]
    ELSE IF resp[i] = "exception"
    THEN StationLoop(resp, i + 1, t, lastUp)
    ELSE IF resp[i] = "200"
    THEN [attempts |-> i, lastUp |-> t, end |-> "ok"]
    ELSE IF resp[i] = "503"
    THEN StationLoop(resp, i + 1, t, lastUp)
    ELSE [attempts |-> i, lastUp |-> lastUp, end |-> "rejected"]

\* SondeHubUploader.upload_station(force): [attempts, lastUp, end]
upload_station(en, force, t, lastUp, resp) ==
    IF ~en
    THEN [attempts |-> 0, lastUp |-> lastUp, end |-> "disabled"]
    ELSE IF ~force /\ t - lastUp < STATION_INTERVAL
    THEN [attempts |-> 0, lastUp |-> lastUp, end |-> "notdue"]
    ELSE StationLoop(resp, 1, t, lastUp)

\* send_telemetry(packet): [recent, queues, end, batch] after the call; batch is
\* what was handed to upload_telemetry (one HTTP PUT when it is not empty)
HubSend(uploader, recent, queues, pkt) ==
    IF ~uploader
    THEN [recent |-> recent, queues |-> queues, end |-> "nouploader", batch |-> <<>>]
    ELSE IF Seen(recent, <<pkt.serial, pkt.frame>>)
    THEN [recent |-> recent, queues |-> queues, end |-> "duplicate", batch |-> <<>>]
    ELSE [recent |-> Remember(recent, <<pkt.serial, pkt.frame>>),
          queues |-> DictPut(queues, pkt.serial, <<>>),
          end    |-> "uploaded",
          batch  |-> Append(DictGet(queues, pkt.serial, <<>>), pkt)]

---------------------------------------------------------------------------
(* Bounds and inputs *)

\* rows the store may hold before the model stops feeding messages
MaxStore == 3

\* clock advances in one behaviour
MaxTicks == 2

\* seconds the clock may advance between two steps: inside the telemetry
\* window, and just short of the beacon interval
TickSteps == {APRS_INTERVAL \div 2, APRS_BEACON_INTERVAL - APRS_INTERVAL \div 2}

SrcA == <<"a">>

SrcB == <<"b">>

V1 == <<"V","1">>

V2 == <<"V","2">>

\* DFM ids as the decoder reports them: two with digits, one unfilled mask
IdDfm09 == <<"D","F","M","0","9","-","1","2","X">>

IdDfm17 == <<"D","F","M","1","7","-","3","4">>

IdMask == <<"D","F","M","-","x","x">>

SubDfm09 == <<"D","F","M",":","D","F","M","0","9">>

SubDfm17 == <<"D","F","M","1","7">>

SubSGP == <<"R","S","4","1","-","S","G","P">>

SubSG == <<"R","S","4","1","-","S","G">>

FreqA == 403 * 1000000

FreqB == 4051 * 100000

\* a complete RS41 message with a decoder-assigned id
BaseMsg ==
    [ mode |-> "SONDE", source |-> Some(SrcA), timestamp |-> Some(1000),
      freq |-> None, type |-> Some(RS41), subtype |-> None, aprsid |-> Some(V1),
      id |-> None, rawid |-> None, tx_frequency |-> Some(FreqA), frame |-> Some(1),
      lat |-> Some(45), lon |-> Some(16), alt |-> Some(1200), heading |-> Some(90),
      vel_h |-> Some(5), vel_v |-> Some(3), sats |-> Some(8), temp |-> Some(7),
      humidity |-> Some(40), batt |-> Some(3) ]

\* the mode recorded for a payload json.loads cannot parse: the handler's
\* except clause ends the call
Unparsable == "unparsable"

\* the message recorded by steps that handle none
NoMsg == [BaseMsg EXCEPT !.mode = "-"]

\* no upload_station call recorded yet
NoStation == [force |-> FALSE, resp |-> <<>>, attempts |-> 0, end |-> "-"]

\* what a step that calls no sink and stores nothing records
Idle ==
    [ op |-> "init", msg |-> NoMsg, outcome |-> "-",
      ser |-> None, cached |-> None, aprs |-> FALSE, aprsOps |-> <<>>, aprsEnd |-> "-",
      hub |-> FALSE, hubEnd |-> "-", batch |-> <<>>, puts |-> 0, http |-> "-" ]

---------------------------------------------------------------------------
(* State after construction: empty caches, no session, and (init_uploaders)  *)
(* a SondeHub uploader exactly when SondeHub is enabled                      *)

InitAt(t) ==
    /\ APRS_UPLOAD \in BOOLEAN
    /\ APRS_BEACON_ENABLE \in BOOLEAN
    /\ SONDEHUB_ENABLED \in BOOLEAN
    /\ now = t
    /\ nticks = 0
    /\ store = <<>>
    /\ dfm_id_cache = EmptyDict
    /\ sonde_freq_cache = EmptyDict
    /\ _sock = "none"
    /\ _last_beacon = 0
    /\ _last_sent = EmptyDict
    /\ _uploader = SONDEHUB_ENABLED
    /\ _recent_packets = {}
    /\ _serial_queues = EmptyDict
    /\ enabled = SONDEHUB_ENABLED
    /\ pc = [ingest |-> "idle", loop |-> "idle", shutdown |-> "idle"]
    /\ _lock = "free"
    /\ _stop = FALSE
    /\ conns = <<>>
    /\ cur = 0
    /\ call = None
    /\ _serial_lock = "free"
    /\ batch = <<>>
    /\ held = {}
    /\ handed = {}
    /\ puts = {}
    /\ _last_station_upload = 0
    /\ station = NoStation
    /\ last = Idle

Init == InitAt(StartTime)

\* the dict handed to aprs.send_telemetry
AprsData(row) ==
    [ ser |-> row.ser, lat |-> row.lat, lon |-> row.lon, alt |-> row.alt,
      time |-> row.time, dir |-> row.dir, speed |-> row.speed,
      climb |-> row.climb, temp |-> row.temp, humidity |-> row.humidity,
      batt |-> row.batt, freq |-> row.freq, type |-> row.type ]

\* if all([new_entry.lat, new_entry.lon, new_entry.alt, new_entry.time, new_entry.ser])
HubComplete(row) ==
    TruthyN(row.lat) /\ TruthyN(row.lon) /\ TruthyN(row.alt)
        /\ row.time # 0 /\ Len(row.ser) > 0

\* on_message, after the commit: the two sinks, APRS first
Dispatch(m, fault, ser, row) ==
    LET a == AprsSend(APRS_UPLOAD, APRS_BEACON_ENABLE, _sock, _last_beacon,
                      _last_sent, AprsData(row), now, fault)
        f == format_sondehub_packet(row)
        try == SONDEHUB_ENABLED /\ HubComplete(row)
        h == HubSend(_uploader, _recent_packets, _serial_queues, f.pkt)
        called == try /\ f.res = "ok"
        u == upload_telemetry(enabled, IF called THEN h.batch ELSE <<>>, fault)
    IN  /\ _sock' = a.sock
        /\ _last_beacon' = a.lb
        /\ _last_sent' = a.ls
        /\ _recent_packets' = IF called THEN h.recent ELSE _recent_packets
        /\ _serial_queues' = IF called THEN h.queues ELSE _serial_queues
        /\ last' = [ op |-> "on_message", msg |-> m,
                     outcome |-> IF try /\ f.res = "raise" THEN "error" ELSE "saved",
                     ser |-> Some(ser), cached |-> DfmLookup(dfm_id_cache, m),
                     aprs |-> TRUE, aprsOps |-> a.ops,
                     aprsEnd |-> a.end, hub |-> called,
                     hubEnd |-> IF called THEN h.end ELSE "-",
                     batch |-> IF called THEN h.batch ELSE <<>>,
                     puts |-> u.puts, http |-> u.res ]

\* a step of on_message that ends before the store is written
DroppedMutantForgetsFreq(m, fault, outcome, ser) ==
    /\ last' = [Idle EXCEPT !.op = "on_message", !.msg = m,
                            !.outcome = outcome, !.ser = ser,
                            !.cached = IF m.mode = "SONDE"
                                       THEN DfmLookup(dfm_id_cache, m) ELSE None]
    /\ sonde_freq_cache' = IF ser = None THEN sonde_freq_cache
                           ELSE DictDel(sonde_freq_cache, Val(ser))
    /\ UNCHANGED <<store, _sock, _last_beacon, _last_sent,
                   _recent_packets, _serial_queues>>

Dropped(m, fault, outcome, ser) ==
    /\ last' = [Idle EXCEPT !.op = "on_message", !.msg = m,
                            !.outcome = outcome, !.ser = ser,
                            !.cached = IF m.mode = "SONDE"
                                       THEN DfmLookup(dfm_id_cache, m) ELSE None]
    /\ UNCHANGED <<store, sonde_freq_cache, _sock, _last_beacon, _last_sent,
                   _recent_packets, _serial_queues>>

\* on_message(client, userdata, msg) for the decoded payload m
OnMessage(m, fault) ==
    /\ Len(store) < MaxStore
    /\ UNCHANGED <<APRS_UPLOAD, APRS_BEACON_ENABLE, SONDEHUB_ENABLED, now, nticks,
                   _uploader, enabled, threadVars>>
    /\ IF m.mode # "SONDE"
       THEN /\ Dropped(m, fault, IF m.mode = Unparsable THEN "error" ELSE "ignored",
                       None)
            /\ UNCHANGED dfm_id_cache
       ELSE
       LET r   == Resolve(dfm_id_cache, m)
           ser == Val(r.ser)
           row == Row(store, sonde_freq_cache, ser, m, now)
       IN  /\ dfm_id_cache' = r.cache
           /\ IF ~TruthyS(r.ser)
              THEN Dropped(m, fault, "noid", None)
              ELSE IF IsPlaceholder(ser)
              THEN Dropped(m, fault, "placeholder", r.ser)
              ELSE IF TsRaises(m)
              THEN Dropped(m, fault, "error", r.ser)
              ELSE IF Existing(store, ser, TsRaw(m, now))
              THEN Dropped(m, fault, "duplicate", r.ser)
              ELSE /\ store' = Append(store, row)
                   /\ sonde_freq_cache' = FreqCache(sonde_freq_cache, ser, m)
                   /\ Dispatch(m, fault, ser, row)

\* the wall clock advances by d seconds
Tick(d) ==
    /\ nticks < MaxTicks
    /\ now' = now + d
    /\ nticks' = nticks + 1
    /\ last' = [Idle EXCEPT !.op = "tick"]
    /\ UNCHANGED <<APRS_UPLOAD, APRS_BEACON_ENABLE, SONDEHUB_ENABLED, store,
                   dfm_id_cache, sonde_freq_cache, _sock, _last_beacon, _last_sent,
                   _uploader, _recent_packets, _serial_queues, enabled, threadVars>>

\* one iteration of the background thread _aprs_loop (started when APRS_UPLOAD)
AprsLoop(fault) ==
    /\ APRS_UPLOAD
    /\ LET l == AprsLoopIter(APRS_BEACON_ENABLE, _sock, _last_beacon, now, fault)
       IN  /\ _sock' = l.sock
           /\ _last_beacon' = l.lb
           /\ last' = [Idle EXCEPT !.op = "aprs_loop",
                                   !.aprsOps = l.ops, !.aprsEnd = l.end]
    /\ UNCHANGED <<APRS_UPLOAD, APRS_BEACON_ENABLE, SONDEHUB_ENABLED, now, nticks,
                   store, dfm_id_cache, sonde_freq_cache, _last_sent, _uploader,
                   _recent_packets, _serial_queues, enabled, threadVars>>

---------------------------------------------------------------------------
(* Input alphabets.  Each specification feeds on_message from one of them.  *)

\* identity resolution: DFM frames with and without id from two sources, a
\* DFM frame with a decoder-assigned id, RS41 and M20 frames, a non-SONDE frame
DfmMsg == [BaseMsg EXCEPT !.type = Some(DFM), !.aprsid = None,
                          !.subtype = Some(SubDfm09)]

IdentityMsgs ==
    {[DfmMsg EXCEPT !.id = i, !.source = s,
                    !.subtype = IF i = Some(IdDfm17) THEN Some(SubDfm17) ELSE @] :
        i \in {None, Some(IdDfm09), Some(IdDfm17), Some(IdMask)},
        s \in {Some(SrcA), Some(SrcB)}}
    \cup {[DfmMsg EXCEPT !.aprsid = Some(V1)],
          [DfmMsg EXCEPT !.source = None, !.id = Some(IdDfm09)],
          [DfmMsg EXCEPT !.source = None],
          BaseMsg,
          [BaseMsg EXCEPT !.source = Some(SrcB)],
          [BaseMsg EXCEPT !.aprsid = None],
          [BaseMsg EXCEPT !.aprsid = Some(<<"d","x","1">>)],
          [BaseMsg EXCEPT !.type = Some(M20), !.aprsid = None,
                          !.rawid = Some(<<"M","_","1","A","B">>),
                          !.id = Some(<<"M","2","0","-","6","7">>)],
          [BaseMsg EXCEPT !.type = Some(M20), !.aprsid = None,
                          !.rawid = Some(<<"M","1">>),
                          !.id = Some(<<"M","2","0","-","6","7">>)],
          [BaseMsg EXCEPT !.type = Some(M20), !.aprsid = None,
                          !.source = Some(SrcB),
                          !.rawid = Some(<<"M","1">>), !.id = Some(<<>>)],
          [BaseMsg EXCEPT !.type = Some(M20), !.aprsid = None, !.source = None,
                          !.rawid = Some(<<"M","1">>), !.id = Some(<<>>)],
          [BaseMsg EXCEPT !.mode = "ADSB"]}

\* deduplication and sticky fields: one serial at three instants, two of them
\* in the same second, with every frequency and subtype; a second serial, also
\* with readings of zero
StoreMsgs ==
    {[BaseMsg EXCEPT !.timestamp = Some(t), !.tx_frequency = f] :
        t \in {1000, 1500, 2000}, f \in {None, Some(FreqA), Some(FreqB)}}
    \cup {[BaseMsg EXCEPT !.timestamp = Some(t), !.subtype = Some(st)] :
        t \in {1000, 1500, 2000}, st \in {SubSGP, RS41}}
    \cup {[BaseMsg EXCEPT !.aprsid = Some(V2), !.tx_frequency = f] :
        f \in {None, Some(FreqB)}}
    \cup {[BaseMsg EXCEPT !.tx_frequency = None, !.freq = Some(FreqB)],
          [BaseMsg EXCEPT !.tx_frequency = None, !.freq = Some(0)],
          [BaseMsg EXCEPT !.timestamp = None],
          [BaseMsg EXCEPT !.aprsid = Some(V2), !.timestamp = Some(2000),
                          !.temp = Some(0), !.humidity = Some(0), !.batt = Some(0),
                          !.vel_v = Some(0), !.vel_h = Some(0),
                          !.tx_frequency = Some(0)]}

\* the beacon sink: two serials, frames that lack a required or a formatted
\* reading
AprsMsgs ==
    {[BaseMsg EXCEPT !.timestamp = Some(t)] : t \in {1000, 2000}}
    \cup {[BaseMsg EXCEPT !.aprsid = Some(V2)],
          [BaseMsg EXCEPT !.timestamp = Some(3000), !.heading = None],
          [BaseMsg EXCEPT !.timestamp = Some(3000), !.vel_h = None]}

\* the aggregator sink: two serials, two instants, two frame numbers; a DFM
\* frame whose SondeHub serial comes from its id; frames without frame / position
HubMsgs ==
    {[BaseMsg EXCEPT !.aprsid = Some(v), !.timestamp = Some(t), !.frame = Some(n)] :
        v \in {V1, V2}, t \in {1000, 2000}, n \in {1, 2}}
    \cup {[DfmMsg EXCEPT !.id = Some(IdDfm09)],
          [BaseMsg EXCEPT !.frame = None],
          [BaseMsg EXCEPT !.lat = Some(0)]}

---------------------------------------------------------------------------
(* Specifications.  The configuration is fixed at start-up; each          *)
(* specification explores the configurations its sink depends on.         *)

\* both sinks and the beacon enabled
InitAllOn ==
    Init /\ APRS_UPLOAD = TRUE /\ APRS_BEACON_ENABLE = TRUE /\ SONDEHUB_ENABLED = TRUE

\* every APRS configuration, SondeHub off
InitAprs == Init /\ SONDEHUB_ENABLED = FALSE

\* SondeHub enabled or not
InitHub == Init /\ APRS_UPLOAD = TRUE /\ APRS_BEACON_ENABLE = FALSE

NextIdentity == \E m \in IdentityMsgs : OnMessage(m, "none")

SpecIdentity ==
    InitAllOn
        /\ [][NextIdentity]_vars

NextStore == \E m \in StoreMsgs : OnMessage(m, "none")

SpecStore ==
    InitAllOn
        /\ [][NextStore]_vars

\* the faults the beacon-sink specification injects: "login" and "greeting"
\* end a call as "connect" does, after the login line was written
AprsFaults == {"none", "greeting", "beacon", "telemetry"}

NextAprs ==
    \/ \E m \in AprsMsgs, f \in AprsFaults : OnMessage(m, f)
    \/ \E d \in TickSteps : Tick(d)
    \/ AprsLoop("none")

SpecAprs == InitAprs /\ [][NextAprs]_vars

\* failures: two serials, a payload that does not parse, a timestamp of the
\* wrong type, frames that make a sink raise (no heading, no frame number)
FaultMsgs ==
    {BaseMsg,
     [BaseMsg EXCEPT !.timestamp = Some(2000), !.frame = Some(2)],
     [BaseMsg EXCEPT !.aprsid = Some(V2)],
     [BaseMsg EXCEPT !.mode = Unparsable],
     [BaseMsg EXCEPT !.timestamp = WrongType],
     [BaseMsg EXCEPT !.timestamp = Some(3000), !.heading = None],
     [BaseMsg EXCEPT !.timestamp = Some(3000), !.frame = None]}

\* every fault of the APRS session, and a failed HTTP PUT
AllFaults == Faults \cup {"http"}

InitFaults == Init /\ APRS_UPLOAD = TRUE /\ SONDEHUB_ENABLED = TRUE

NextFaults ==
    \/ \E m \in FaultMsgs, f \in AllFaults : OnMessage(m, f)
    \/ \E f \in {"none", "connect"} : AprsLoop(f)

SpecFaults == InitFaults /\ [][NextFaults]_vars

NextHub == \E m \in HubMsgs : OnMessage(m, "none")

SpecHub == InitHub /\ [][NextHub]_vars

---------------------------------------------------------------------------
(* The APRS session, statement by statement.  send_telemetry runs on the    *)
(* MQTT thread ("ingest") inside `with _lock`; _aprs_loop runs on its own   *)
(* thread ("loop") and takes no lock.  Every socket call goes through the   *)
(* global _sock, so it acts on the connection _sock names at that moment.   *)

\* connections created in one run
MaxConns == 2

\* what the session steps leave alone
sessionRest == <<APRS_UPLOAD, APRS_BEACON_ENABLE, SONDEHUB_ENABLED, now, nticks,
                 store, dfm_id_cache, sonde_freq_cache, _uploader,
                 _recent_packets, _serial_queues, enabled, _serial_lock, batch,
                 held, handed, puts, _last_station_upload, station, _stop, last>>

\* a connection just returned by socket.create_connection
NewConn == [open |-> TRUE, login |-> FALSE, greeted |-> FALSE,
            tele |-> FALSE, early |-> FALSE, beacons |-> 0]

\* the dicts on_message hands to send_telemetry: two serials
SessionData ==
    {AprsData(Row(<<>>, EmptyDict, v, BaseMsg, StartTime)) : v \in {V1, V2}}

Goto(t, label) == pc' = [pc EXCEPT ![t] = label]

\* where a thread goes after its except clause / after the beacon
AfterExcept(t) == IF t = "ingest" THEN "release" ELSE "idle"

AfterBeacon(t) == IF t = "ingest" THEN "body" ELSE "idle"

\* send_telemetry: `with _lock:` entered with the call's argument
SessAcquire(d) ==
    /\ pc.ingest = "idle" /\ APRS_UPLOAD
    /\ _lock = "free"
    /\ _lock' = "ingest"
    /\ call' = Some(d)
    /\ Goto("ingest", "check")
    /\ UNCHANGED <<sessionRest, _sock, _last_beacon, _last_sent, conns, cur>>

\* `if _sock is None:` in send_telemetry (after the lock) and at the top of
\* the _aprs_loop iteration
SessCheck(t) ==
    /\ pc[t] = (IF t = "ingest" THEN "check" ELSE "idle")
    /\ APRS_UPLOAD
    /\ t = "loop" => ~_stop
    /\ Goto(t, IF cur = 0 THEN "connect" ELSE "beacon")
    /\ UNCHANGED <<sessionRest, _sock, _last_beacon, _last_sent, _lock, conns,
                   cur, call>>

\* _connect: _sock = socket.create_connection(...), or it raises
SessCreate(t, fault) ==
    /\ pc[t] = "connect"
    /\ Len(conns) < MaxConns
    /\ IF fault = "connect"
       THEN /\ Goto(t, "except")
            /\ UNCHANGED <<conns, cur, _sock>>
       ELSE /\ conns' = Append(conns, NewConn)
            /\ cur' = Len(conns) + 1
            /\ _sock' = "open"
            /\ Goto(t, "login")
    /\ UNCHANGED <<sessionRest, _last_beacon, _last_sent, _lock, call>>

\* _connect: _sock.sendall(login); on None it raises AttributeError
SessLogin(t, fault) ==
    /\ pc[t] = "login"
    /\ IF cur = 0 \/ fault = "login"
       THEN /\ Goto(t, "except")
            /\ UNCHANGED conns
       ELSE /\ conns' = [conns EXCEPT ![cur].login = TRUE]
            /\ Goto(t, "greet")
    /\ UNCHANGED <<sessionRest, _sock, _last_beacon, _last_sent, _lock, cur, call>>

\* _connect: resp = _sock.recv(1024); anything but a "#" line raises
SessGreet(t, fault) ==
    /\ pc[t] = "greet"
    /\ IF cur = 0 \/ fault = "greeting"
       THEN /\ Goto(t, "except")
            /\ UNCHANGED conns
       ELSE /\ conns' = [conns EXCEPT ![cur].greeted = TRUE]
            /\ Goto(t, "beacon")
    /\ UNCHANGED <<sessionRest, _sock, _last_beacon, _last_sent, _lock, cur, call>>

\* _send_beacon(): the enable flag and the interval test on _last_beacon
SessBeacon(t) ==
    /\ pc[t] = "beacon"
    /\ LET b == Beacon(APRS_BEACON_ENABLE, _last_beacon, now, "none")
       IN  Goto(t, IF b.ops = <<>> THEN AfterBeacon(t) ELSE "bsend")
    /\ UNCHANGED <<sessionRest, _sock, _last_beacon, _last_sent, _lock, conns,
                   cur, call>>

\* _send_beacon(): _sock.sendall(packet), then _last_beacon = now
SessBeaconSend(t, fault) ==
    /\ pc[t] = "bsend"
    /\ IF cur = 0 \/ fault = "beacon"
       THEN /\ Goto(t, "except")
            /\ UNCHANGED <<conns, _last_beacon>>
       ELSE /\ conns' = [conns EXCEPT ![cur].beacons = @ + 1]
            /\ _last_beacon' = now
            /\ Goto(t, AfterBeacon(t))
    /\ UNCHANGED <<sessionRest, _sock, _last_sent, _lock, cur, call>>

\* send_telemetry from `ser = data.get("ser")` to the sendall of the packet
SessBody(fault) ==
    /\ pc.ingest = "body"
    /\ LET s == SendBody(_last_sent, Val(call), now, fault)
           writes == s.ops # <<>>
       IN  /\ _last_sent' = s.ls
           /\ IF s.end = "error" \/ (writes /\ cur = 0)
              THEN /\ Goto("ingest", "except")
                   /\ UNCHANGED conns
              ELSE /\ Goto("ingest", "release")
                   /\ conns' = IF writes
                                THEN [conns EXCEPT
                                        ![cur].tele = TRUE,
                                        ![cur].early = @ \/ ~conns[cur].greeted]
                                ELSE conns
    /\ UNCHANGED <<sessionRest, _sock, _last_beacon, _lock, cur, call>>

\* the except clause of either thread: close whatever _sock names, _sock = None
SessExcept(t) ==
    /\ pc[t] = "except"
    /\ conns' = IF cur = 0 THEN conns ELSE [conns EXCEPT ![cur].open = FALSE]
    /\ cur' = 0
    /\ _sock' = "none"
    /\ Goto(t, AfterExcept(t))
    /\ UNCHANGED <<sessionRest, _last_beacon, _last_sent, _lock, call>>

\* leaving `with _lock:`
SessRelease ==
    /\ pc.ingest = "release"
    /\ _lock' = "free"
    /\ call' = None
    /\ Goto("ingest", "idle")
    /\ UNCHANGED <<sessionRest, _sock, _last_beacon, _last_sent, conns, cur>>

SessionThreads == {"ingest", "loop"}

InitSession == Init /\ APRS_UPLOAD = TRUE /\ SONDEHUB_ENABLED = FALSE

NextSession ==
    \/ \E d \in SessionData : SessAcquire(d)
    \/ \E t \in SessionThreads : SessCheck(t)
    \/ \E t \in SessionThreads, f \in {"none", "connect"} : SessCreate(t, f)
    \/ \E t \in SessionThreads, f \in {"none", "login"} : SessLogin(t, f)
    \/ \E t \in SessionThreads, f \in {"none", "greeting"} : SessGreet(t, f)
    \/ \E t \in SessionThreads : SessBeacon(t)
    \/ \E t \in SessionThreads, f \in {"none", "beacon"} : SessBeaconSend(t, f)
    \/ \E f \in {"none", "telemetry"} : SessBody(f)
    \/ \E t \in SessionThreads : SessExcept(t)
    \/ SessRelease

SpecSession == InitSession /\ [][NextSession]_vars

\* The main thread calls aprs.stop() in its finally block while the MQTT loop
\* and _aprs_loop are running.  stop(): _stop = True
AprsStopFlag ==
    /\ pc.shutdown = "idle"
    /\ UNCHANGED <<APRS_UPLOAD, APRS_BEACON_ENABLE, SONDEHUB_ENABLED, now, nticks,
                   store, dfm_id_cache, sonde_freq_cache, _uploader,
                   _recent_packets, _serial_queues, enabled, _serial_lock, batch,
                   held, handed, puts, _last_station_upload, station, last>>
    /\ _stop' = TRUE
    /\ Goto("shutdown", "close")
    /\ UNCHANGED <<_sock, _last_beacon, _last_sent, _lock, conns, cur, call>>

\* stop(): if _sock: _sock.close(); _sock = None
AprsStopClose ==
    /\ pc.shutdown = "close"
    /\ conns' = IF cur = 0 THEN conns ELSE [conns EXCEPT ![cur].open = FALSE]
    /\ cur' = 0
    /\ _sock' = "none"
    /\ Goto("shutdown", "stopped")
    /\ UNCHANGED <<sessionRest, _last_beacon, _last_sent, _lock, call>>

\* `while not _stop` found false: _aprs_loop returns
LoopExit ==
    /\ pc.loop = "idle"
    /\ _stop
    /\ Goto("loop", "exited")
    /\ UNCHANGED <<sessionRest, _sock, _last_beacon, _last_sent, _lock, conns,
                   cur, call>>

NextStop ==
    \/ NextSession
    \/ AprsStopFlag
    \/ AprsStopClose
    \/ LoopExit

SpecStop == InitSession /\ [][NextStop]_vars

---------------------------------------------------------------------------
(* SondeHub at shutdown, statement by statement.  sondehub.send_telemetry   *)
(* runs on the MQTT thread ("ingest"); the main thread ("shutdown") calls   *)
(* sondehub.stop() in its finally block while the MQTT loop is still        *)
(* running; _periodic_worker flushes on its own thread.                     *)

\* what the SondeHub steps leave alone
hubRest == <<APRS_UPLOAD, APRS_BEACON_ENABLE, SONDEHUB_ENABLED, now, nticks,
             store, dfm_id_cache, sonde_freq_cache, _sock, _last_beacon,
             _last_sent, _lock, _stop, conns, cur, _last_station_upload, station,
             last>>

\* the packets on_message formats: two serials, two frames
ShutdownPkts ==
    {format_sondehub_packet(
         Row(<<>>, EmptyDict, v, [BaseMsg EXCEPT !.frame = Some(n)], StartTime)).pkt :
        v \in {V1, V2}, n \in {1, 2}}

\* the packets of a list
Packets(q) == {q[i] : i \in 1..Len(q)}

\* every packet held in a per-serial queue
Queued(queues) == UNION {Packets(queues[k]) : k \in DOMAIN queues}

\* flush_telemetry(): the packets an HTTP PUT is attempted for
FlushPuts(uploader, en, queues) ==
    IF ~uploader THEN {}
    ELSE UNION {IF upload_telemetry(en, queues[k], "none").puts > 0
                THEN Packets(queues[k]) ELSE {} : k \in DOMAIN queues}

\* send_telemetry(packet): the uploader test and the deduplication
HubEnter(pkt) ==
    /\ pc.ingest = "idle"
    /\ IF ~_uploader \/ Seen(_recent_packets, <<pkt.serial, pkt.frame>>)
       THEN UNCHANGED <<_recent_packets, call, pc>>
       ELSE /\ _recent_packets' = Remember(_recent_packets, <<pkt.serial, pkt.frame>>)
            /\ call' = Some(pkt)
            /\ Goto("ingest", "lock")
    /\ UNCHANGED <<hubRest, _uploader, _serial_queues, enabled, _serial_lock,
                   batch, held, handed, puts>>

\* send_telemetry: `with _serial_lock:` entered, the packet appended
HubAppend ==
    /\ pc.ingest = "lock"
    /\ _serial_lock = "free"
    /\ _serial_lock' = "ingest"
    /\ LET k == Val(call).serial
       IN  _serial_queues' =
               DictPut(_serial_queues, k,
                       Append(DictGet(_serial_queues, k, <<>>), Val(call)))
    /\ Goto("ingest", "queued")
    /\ UNCHANGED <<hubRest, _uploader, _recent_packets, enabled, call, batch,
                   held, handed, puts>>

\* send_telemetry: batch = queue[:], queue.clear(), the lock released
HubTake ==
    /\ pc.ingest = "queued"
    /\ LET k == Val(call).serial
       IN  /\ batch' = _serial_queues[k]
           /\ _serial_queues' = DictPut(_serial_queues, k, <<>>)
    /\ _serial_lock' = "free"
    /\ Goto("ingest", "upload")
    /\ UNCHANGED <<hubRest, _uploader, _recent_packets, enabled, call, held,
                   handed, puts>>

\* send_telemetry: _uploader.upload_telemetry(batch); on None it raises
\* AttributeError, caught by on_message
HubUpload(fault) ==
    /\ pc.ingest = "upload"
    /\ LET u == upload_telemetry(enabled, batch, fault)
       IN  puts' = IF _uploader /\ u.puts > 0 THEN puts \cup Packets(batch) ELSE puts
    /\ handed' = IF _uploader THEN handed \cup Packets(batch) ELSE handed
    /\ batch' = <<>>
    /\ call' = None
    /\ Goto("ingest", "idle")
    /\ UNCHANGED <<hubRest, _uploader, _recent_packets, _serial_queues, enabled,
                   _serial_lock, held>>

\* _periodic_worker: flush_telemetry() after each sleep
PeriodicFlush ==
    /\ _uploader
    /\ _serial_lock = "free"
    /\ puts' = puts \cup FlushPuts(_uploader, enabled, _serial_queues)
    /\ handed' = handed \cup Queued(_serial_queues)
    /\ _serial_queues' = EmptyDict
    /\ UNCHANGED <<hubRest, _uploader, _recent_packets, enabled, pc, call,
                   _serial_lock, batch, held>>

\* stop(): if _uploader: _uploader.enabled = False
StopDisable ==
    /\ pc.shutdown = "idle"
    /\ enabled' = IF _uploader THEN FALSE ELSE enabled
    /\ held' = Queued(_serial_queues)
    /\ UNCHANGED handed
    /\ Goto("shutdown", "flush")
    /\ UNCHANGED <<hubRest, _uploader, _recent_packets, _serial_queues, call,
                   _serial_lock, batch, puts>>

\* stop(): flush_telemetry()
StopFlush ==
    /\ pc.shutdown = "flush"
    /\ _serial_lock = "free"
    /\ puts' = puts \cup FlushPuts(_uploader, enabled, _serial_queues)
    /\ handed' = IF _uploader THEN handed \cup Queued(_serial_queues) ELSE handed
    /\ _serial_queues' = IF _uploader THEN EmptyDict ELSE _serial_queues
    /\ Goto("shutdown", "discard")
    /\ UNCHANGED <<hubRest, _uploader, _recent_packets, enabled, call,
                   _serial_lock, batch, held>>

\* stop(): _uploader = None
StopDiscard ==
    /\ pc.shutdown = "discard"
    /\ _uploader' = FALSE
    /\ Goto("shutdown", "done")
    /\ UNCHANGED <<hubRest, _recent_packets, _serial_queues, enabled, call,
                   _serial_lock, batch, held, handed, puts>>

InitShutdown == Init /\ APRS_UPLOAD = FALSE /\ SONDEHUB_ENABLED = TRUE

---------------------------------------------------------------------------
(* The station upload: start() calls upload_station(force=True) once, the    *)
(* _periodic_worker calls upload_station() after every flush.                *)

\* a start-up time more than one station interval after the epoch
StationStart == STATION_INTERVAL + StartTime

\* seconds the clock advances between station uploads
StationSteps == {STATION_INTERVAL \div 2, STATION_INTERVAL}

\* what the requests.put calls of one upload_station would end in
StationResponses == [1..STATION_RETRIES -> Responses]

\* upload_station(force) with the server answering resp
UploadStation(force, resp) ==
    /\ _uploader
    /\ LET u == upload_station(enabled, force, now, _last_station_upload, resp)
       IN  /\ _last_station_upload' = u.lastUp
           /\ station' = [force |-> force, resp |-> resp,
                          attempts |-> u.attempts, end |-> u.end]
    /\ last' = [Idle EXCEPT !.op = "upload_station"]
    /\ UNCHANGED <<APRS_UPLOAD, APRS_BEACON_ENABLE, SONDEHUB_ENABLED, now, nticks,
                   store, dfm_id_cache, sonde_freq_cache, _sock, _last_beacon,
                   _last_sent, _lock, _stop, conns, cur, _uploader, _recent_packets,
                   _serial_queues, enabled, pc, call, _serial_lock, batch, held, handed,
                   puts>>

InitStation ==
    /\ InitAt(StationStart)
    /\ APRS_UPLOAD = FALSE /\ APRS_BEACON_ENABLE = FALSE /\ SONDEHUB_ENABLED = TRUE

NextStation ==
    \/ \E force \in BOOLEAN, resp \in StationResponses : UploadStation(force, resp)
    \/ \E d \in StationSteps : Tick(d)
    \/ StopDisable

SpecStation == InitStation /\ [][NextStation]_vars

NextShutdown ==
    \/ \E pkt \in ShutdownPkts : HubEnter(pkt)
    \/ HubAppend
    \/ HubTake
    \/ \E f \in {"none", "http"} : HubUpload(f)
    \/ PeriodicFlush
    \/ StopDisable
    \/ StopFlush
    \/ StopDiscard

SpecShutdown == InitShutdown /\ [][NextShutdown]_vars

---------------------------------------------------------------------------
(* Properties.  They are stated over the observer record `last` (what the   *)
(* step just taken did) and the state before and after that step.           *)

\* the step just taken handled a SONDE message
Handled == last'.op = "on_message" /\ last'.msg.mode = "SONDE"

\* the store holds an observation with this key
HasRow(rows, ser, vframe) ==
    \E i \in 1..Len(rows) : rows[i].ser = ser /\ rows[i].vframe = vframe

\* the step appended exactly one observation and kept the earlier ones
Appended ==
    /\ Len(store') = Len(store) + 1
    /\ SubSeq(store', 1, Len(store)) = store

\* no sink state moved and no sink was called
SinksUntouched ==
    /\ ~last'.aprs /\ last'.aprsOps = <<>>
    /\ ~last'.hub /\ last'.batch = <<>>
    /\ UNCHANGED <<_sock, _last_beacon, _last_sent, _recent_packets, _serial_queues>>

\* C1: a message whose (serial, vframe) equals that of an observation already
\* in the store is rejected as a duplicate: the store is unchanged and no sink
\* is called for it.
C1_DuplicateRejected ==
    [][ (Handled /\ last'.ser # None
           /\ HasRow(store, Val(last'.ser), TsRaw(last'.msg, now)))
        => (last'.outcome = "duplicate" /\ store' = store
              /\ sonde_freq_cache' = sonde_freq_cache /\ SinksUntouched) ]_vars

\* a duplicate of a stored observation was delivered
C1_Witness ==
    /\ last.op = "on_message" /\ last.outcome = "duplicate"
    /\ HasRow(store, Val(last.ser), TsRaw(last.msg, now))

\* no two stored observations share (ser, vframe)
UniqueKeys ==
    \A i, j \in 1..Len(store) :
        (store[i].ser = store[j].ser /\ store[i].vframe = store[j].vframe) => i = j

\* C2: (ser, vframe) is unique among stored observations, and a message for a
\* serial that already has an observation in the same second but with another
\* vframe is stored as well.
C2_UniqueKey ==
    /\ []UniqueKeys
    /\ [][ (Handled /\ last'.ser # None
              /\ ~HasRow(store, Val(last'.ser), TsRaw(last'.msg, now))
              /\ \E i \in 1..Len(store) :
                    /\ store[i].ser = Val(last'.ser)
                    /\ store[i].time = TsRaw(last'.msg, now) \div 1000)
           => (Appended
                 /\ store'[Len(store')].ser = Val(last'.ser)
                 /\ store'[Len(store')].vframe = TsRaw(last'.msg, now)) ]_vars

\* two observations of one serial in the same second with different vframe
C2_Witness ==
    \E i, j \in 1..Len(store) :
        /\ store[i].ser = store[j].ser /\ store[i].time = store[j].time
        /\ store[i].vframe # store[j].vframe

\* a DFM message without an id, from a source key with a cached serial
IdlessDfmCached ==
    /\ Handled
    /\ last'.msg.type = Some(DFM) /\ ~TruthyS(last'.msg.id)
    /\ SourceKey(last'.msg) # None
    /\ Val(SourceKey(last'.msg)) \in DOMAIN dfm_id_cache

\* C3 as the specification states it: once a serial is cached for a source
\* key, every later DFM message from that key whose id is missing resolves to
\* the cached serial.
C3_AsStated ==
    [][ IdlessDfmCached
        => last'.ser = Some(dfm_id_cache[Val(SourceKey(last'.msg))]) ]_vars

\* C3: while a serial is cached for a source key, a DFM message from that key
\* with no id and no decoder-assigned id (aprsid) resolves to the cached
\* serial, and the entry stays.
C3_CachedSerialReused ==
    [][ (IdlessDfmCached /\ ~TruthyS(last'.msg.aprsid))
        => /\ last'.ser = Some(dfm_id_cache[Val(SourceKey(last'.msg))])
           /\ dfm_id_cache' = dfm_id_cache ]_vars

\* an id-less DFM message was resolved to the serial derived from IdDfm09
C3_Witness ==
    /\ last.op = "on_message" /\ last.msg.type = Some(DFM)
    /\ last.msg.id = None /\ last.msg.aprsid = None
    /\ last.cached = Some(<<"D","0","9","1","2">>)
    /\ last.ser = last.cached
    /\ store # <<>> /\ store[Len(store)].ser = <<"D","0","9","1","2">>

\* C4: a message from source key k whose type is not DFM removes k's cache
\* entry whatever else happens to the message, and an id-less DFM message from
\* k that follows it does not resolve to the serial that was cached.
C4_Eviction ==
    [][ /\ (Handled /\ last'.msg.type # Some(DFM) /\ SourceKey(last'.msg) # None)
           => Val(SourceKey(last'.msg)) \notin DOMAIN dfm_id_cache'
        /\ (/\ last.op = "on_message" /\ last.msg.mode = "SONDE"
            /\ last.msg.type # Some(DFM) /\ last.cached # None
            /\ Handled /\ last'.msg.type = Some(DFM) /\ ~TruthyS(last'.msg.id)
            /\ SourceKey(last'.msg) = SourceKey(last.msg))
           => last'.ser # last.cached ]_vars

\* a non-DFM message arrived from a source key that had a cached serial
C4_Witness ==
    /\ last.op = "on_message" /\ last.msg.mode = "SONDE"
    /\ last.msg.type # Some(DFM) /\ last.cached # None
    /\ Val(SourceKey(last.msg)) \notin DOMAIN dfm_id_cache

\* C5: the cache is per source key: a message from key k leaves every other
\* key's entry as it was, and an id-less DFM message from key b resolves to a
\* serial cached for another key a only if b's own entry holds the same serial.
C5_PerSourceKey ==
    [][ Handled =>
        /\ \A k \in DOMAIN dfm_id_cache :
              Some(k) # SourceKey(last'.msg)
              => (k \in DOMAIN dfm_id_cache' /\ dfm_id_cache'[k] = dfm_id_cache[k])
        /\ \A k \in DOMAIN dfm_id_cache' :
              Some(k) # SourceKey(last'.msg) => k \in DOMAIN dfm_id_cache
        /\ (last'.msg.type = Some(DFM) /\ ~TruthyS(last'.msg.id))
           => \A k \in DOMAIN dfm_id_cache :
                 (Some(k) # SourceKey(last'.msg) /\ last'.ser = Some(dfm_id_cache[k]))
                 => /\ SourceKey(last'.msg) # None
                    /\ Val(SourceKey(last'.msg)) \in DOMAIN dfm_id_cache
                    /\ dfm_id_cache[Val(SourceKey(last'.msg))] = dfm_id_cache[k] ]_vars

\* an id-less DFM message from source b while only source a has a cached serial
C5_Witness ==
    /\ last.op = "on_message" /\ last.msg.type = Some(DFM) /\ last.msg.id = None
    /\ last.msg.source = Some(SrcB) /\ last.ser = Some(SrcB)
    /\ DOMAIN dfm_id_cache = {SrcA}

\* a placeholder serial: "d", or a d... / d-... / dfm-... mask that holds an x
PlaceholderSerial(ser) ==
    LET s == Lower(Strip(ser))
    IN  s = <<"d">> \/ (Len(s) > 0 /\ s[1] = "d" /\ \E i \in 1..Len(s) : s[i] = "x")

\* C6: no stored observation has a placeholder serial; a message that resolves
\* to one stores nothing and reaches no sink; a DFM id without digits resolves
\* to "D", is not cached and is dropped.
C6_NoPlaceholder ==
    /\ [](\A i \in 1..Len(store) : ~PlaceholderSerial(store[i].ser))
    /\ [][ /\ (Handled /\ last'.ser # None /\ PlaceholderSerial(Val(last'.ser)))
              => (last'.outcome = "placeholder" /\ store' = store /\ SinksUntouched)
           /\ (/\ Handled /\ last'.msg.type = Some(DFM)
               /\ ~TruthyS(last'.msg.aprsid) /\ TruthyS(last'.msg.id)
               /\ \A i \in 1..Len(Val(last'.msg.id)) : Val(last'.msg.id)[i] \notin Digits)
              => (/\ last'.ser = Some(<<"D">>) /\ last'.outcome = "placeholder"
                  /\ dfm_id_cache' = dfm_id_cache
                  /\ \A k \in DOMAIN dfm_id_cache' : dfm_id_cache'[k] # <<"D">>) ]_vars

\* a DFM message with the unfilled mask as id was resolved to "D" and dropped
C6_Witness ==
    /\ last.op = "on_message" /\ last.msg.id = Some(IdMask)
    /\ last.ser = Some(<<"D">>) /\ last.outcome = "placeholder"

SpecificRS41(t) == t # None /\ StartsWith(Val(t), <<"R","S","4","1","-">>)

\* the message carries only the generic RS41 tag
GenericRS41(m) ==
    /\ m.type = Some(RS41)
    /\ (m.subtype = None \/ clean_subtype(m.subtype) = Some(RS41))

\* C8: once a specific RS41 subtype has been stored for a serial, a later
\* message for that serial that carries only the generic tag is stored with a
\* specific subtype stored before, for any arrival order of vframe; a message
\* that reports a specific subtype is stored with its own.
C8_StickySubtype ==
    [][ (Handled /\ Appended /\ store'[Len(store')].ser = Val(last'.ser)) =>
        /\ (/\ GenericRS41(last'.msg)
            /\ \E i \in 1..Len(store) :
                  store[i].ser = Val(last'.ser) /\ SpecificRS41(store[i].type))
           => \E i \in 1..Len(store) :
                 /\ store[i].ser = Val(last'.ser) /\ SpecificRS41(store[i].type)
                 /\ store'[Len(store')].type = store[i].type
        /\ (last'.msg.type = Some(RS41) /\ SpecificRS41(clean_subtype(last'.msg.subtype)))
           => store'[Len(store')].type = clean_subtype(last'.msg.subtype) ]_vars

\* the step called aprs.send_telemetry with uploading enabled
AprsCalled == Handled /\ last'.aprs /\ APRS_UPLOAD

\* C9 as the specification states it: when aprs.send_telemetry is called twice
\* for one serial within the interval (here: by two consecutive messages, the
\* clock not moving between them), the second call is dropped with no
\* transport call made for it.
C9_AsStated ==
    [][ (/\ last.op = "on_message" /\ last.aprs
         /\ AprsCalled /\ last'.ser = last.ser)
        => (last'.aprsOps = <<>> /\ last'.aprsEnd # "sent") ]_vars

\* C9: a call for a serial whose rate-limit timestamp is younger than the
\* interval writes no telemetry packet and leaves the timestamps alone (it may
\* still open the session and send a due beacon first); a call is rate
\* limited only by its own serial's timestamp.
C9_RateLimit ==
    [][ AprsCalled =>
        /\ (/\ Val(last'.ser) \in DOMAIN _last_sent
            /\ now - _last_sent[Val(last'.ser)] < APRS_INTERVAL)
           => (/\ last'.aprsEnd # "sent"
               /\ \A i \in 1..Len(last'.aprsOps) : last'.aprsOps[i] # "telemetry"
               /\ _last_sent' = _last_sent)
        /\ last'.aprsEnd = "ratelimited"
           => (/\ Val(last'.ser) \in DOMAIN _last_sent
               /\ now - _last_sent[Val(last'.ser)] < APRS_INTERVAL)
        /\ \A k \in DOMAIN _last_sent :
              k # Val(last'.ser)
              => (k \in DOMAIN _last_sent' /\ _last_sent'[k] = _last_sent[k]) ]_vars

\* a rate-limited call that still reached the transport (login or beacon)
C9_Witness ==
    /\ last.op = "on_message" /\ last.aprsEnd = "ratelimited"
    /\ last.aprsOps # <<>>
    /\ Val(last.ser) \in DOMAIN _last_sent

\* the (serial, frame) keys of the packets sondehub.send_telemetry received
ReceivedKeys(rows) ==
    {<<format_sondehub_packet(rows[i]).pkt.serial,
       format_sondehub_packet(rows[i]).pkt.frame>> :
        i \in {n \in 1..Len(rows) :
                 HubComplete(rows[n]) /\ format_sondehub_packet(rows[n]).res = "ok"}}

\* the key of the packet the step handed to sondehub.send_telemetry
HubKey ==
    <<format_sondehub_packet(store'[Len(store')]).pkt.serial,
      format_sondehub_packet(store'[Len(store')]).pkt.frame>>

\* the step called sondehub.send_telemetry and an uploader exists
HubCalled == Handled /\ last'.hub /\ _uploader

\* C10 as the specification states it: a packet whose (serial, frame) was
\* already received is dropped before any HTTP call and joins no queue.
C10_AsStated ==
    [][ (HubCalled /\ HubKey \in ReceivedKeys(store))
        => (last'.hubEnd = "duplicate" /\ last'.batch = <<>>
              /\ _serial_queues' = _serial_queues) ]_vars

\* C10: a packet whose (serial, frame) was received since the recent set was
\* last cleared (the key is still in it) is dropped before any HTTP call and
\* joins no queue.
C10_HubDuplicate ==
    [][ (HubCalled /\ HubKey \in _recent_packets)
        => (last'.hubEnd = "duplicate" /\ last'.batch = <<>>
              /\ _serial_queues' = _serial_queues
              /\ _recent_packets' = _recent_packets) ]_vars

\* a packet with a remembered (serial, frame) was dropped
C10_Witness ==
    /\ last.op = "on_message" /\ last.hub /\ last.hubEnd = "duplicate"
    /\ Len(store) >= 2 /\ _recent_packets # {}

\* the observation the step stored
NewRow == store'[Len(store')]

\* SondeHub takes the observation: complete, and a packet can be built
HubEligible(row) == HubComplete(row) /\ format_sondehub_packet(row).res = "ok"

\* APRS can format the observation
AprsEligible(row) ==
    /\ row.lat # None /\ row.lon # None /\ row.alt # None
    /\ row.dir # None /\ row.speed # None /\ row.climb # None /\ row.freq # None

\* a complete message with a decoder-assigned id and a numeric timestamp
WellFormed(m) ==
    /\ m.mode = "SONDE" /\ TruthyS(m.aprsid) /\ ~PlaceholderSerial(Val(m.aprsid))
    /\ Len(m.timestamp) = 1 /\ m.type # None
    /\ TruthyN(m.lat) /\ TruthyN(m.lon) /\ TruthyN(m.alt)
    /\ m.heading # None /\ m.vel_h # None /\ m.vel_v # None
    /\ m.frame # None /\ TruthyN(m.tx_frequency)

\* the message of the step has a (serial, vframe) the store does not hold
NewKey ==
    /\ last'.ser # None /\ Len(last'.msg.timestamp) = 1
    /\ ~HasRow(store, Val(last'.ser), Val(last'.msg.timestamp))

\* a sink failed in the step this record describes
SinkFailed(l) == l.aprsEnd = "error" \/ l.http = "failed" \/ l.outcome = "error"

\* C11: for an accepted observation, a failed APRS delivery does not keep the
\* observation from SondeHub (the packet is handed over and a PUT attempted), a
\* failed SondeHub delivery does not keep it from APRS, and after either
\* failure the next message with a new (serial, vframe) is stored and
\* handed to both sinks.
C11_SinkIsolation ==
    [][ /\ (Handled /\ Appended /\ last'.aprsEnd = "error" /\ HubEligible(NewRow))
           => /\ last'.hub
              /\ HubKey \notin _recent_packets
                 => (last'.batch # <<>> /\ last'.puts = 1)
        /\ (Handled /\ Appended /\ (last'.http = "failed" \/ last'.outcome = "error"))
           => /\ last'.aprs /\ last'.aprsEnd # "-"
              /\ (/\ last'.http = "failed" /\ AprsEligible(NewRow)
                  /\ ~(NewRow.ser \in DOMAIN _last_sent
                         /\ now - _last_sent[NewRow.ser] < APRS_INTERVAL))
                 => last'.aprsEnd = "sent"
        /\ (/\ last.op = "on_message" /\ SinkFailed(last)
            /\ Handled /\ WellFormed(last'.msg) /\ NewKey)
           => /\ Appended /\ NewRow.ser = Val(last'.msg.aprsid)
              /\ last'.aprs /\ last'.hub ]_vars

\* the APRS telemetry write failed and the packet still went to SondeHub
C11_Witness ==
    /\ last.op = "on_message" /\ last.outcome = "saved"
    /\ last.aprsEnd = "error" /\ last.aprsOps # <<>>
    /\ last.hub /\ last.hubEnd = "uploaded" /\ last.puts = 1

\* C12: a send_telemetry call that ends in an error leaves the session closed
\* and null and returns to on_message, which goes on to SondeHub; a call that
\* finds no session connects and logs in before it writes a beacon or a
\* telemetry packet.
C12_SessionTeardown ==
    [][ AprsCalled =>
        /\ last'.aprsEnd = "error"
           => /\ _sock' = "none" /\ Appended
              /\ HubEligible(NewRow) => last'.hub
        /\ (_sock = "none" /\ last'.aprsOps # <<>>)
           => /\ last'.aprsOps[1] = "connect"
              /\ Len(last'.aprsOps) > 1 => last'.aprsOps[2] = "login"
        /\ (_sock = "none" /\ last'.aprsEnd = "sent")
           => /\ Len(last'.aprsOps) >= 3
              /\ SubSeq(last'.aprsOps, 1, 2) = <<"connect", "login">> ]_vars

\* after an error had closed the session, a call reconnected and sent
C12_Witness ==
    /\ last.op = "on_message" /\ last.aprsEnd = "sent"
    /\ Len(last.aprsOps) >= 3
    /\ SubSeq(last.aprsOps, 1, 2) = <<"connect", "login">>
    /\ Len(store) >= 2
    /\ \E i \in 1..(Len(store) - 1) :
          store[i].ser # Val(last.ser) /\ store[i].ser \in DOMAIN _last_sent

\* C15: a telemetry batch whose HTTP PUT fails is tried again (more than one
\* PUT is attempted for it) before it is dropped.
C15_PutRetried ==
    [][ (Handled /\ last'.hub /\ last'.http = "failed") => last'.puts > 1 ]_vars

\* C19: after a message that failed (unparsable, wrong-typed, a sink error) or
\* was dropped, the next well-formed message with a new (serial, vframe) is
\* resolved to its serial, stored and handed to both sinks.
C19_NoFatalFailure ==
    [][ (/\ last.op = "on_message"
         /\ (SinkFailed(last) \/ last.outcome \in {"ignored", "noid", "placeholder"})
         /\ Handled /\ WellFormed(last'.msg) /\ NewKey)
        => /\ last'.outcome = "saved" /\ Appended
           /\ NewRow.ser = Val(last'.msg.aprsid)
           /\ NewRow.vframe = Val(last'.msg.timestamp)
           /\ last'.aprs /\ last'.aprsEnd # "-"
           /\ last'.hub /\ last'.hubEnd # "-" ]_vars

\* a well-formed message was stored and delivered to both sinks although an
\* earlier message had left only a row the sinks could not take
C19_Witness ==
    /\ last.op = "on_message" /\ last.outcome = "saved" /\ WellFormed(last.msg)
    /\ last.aprsEnd = "sent" /\ last.hubEnd = "uploaded" /\ last.http = "ok"
    /\ Len(store) = 2 /\ store[1].frame = None

\* the positions of the digits in a text
DigitPositions(id) == {i \in 1..Len(id) : id[i] \in Digits}

\* ser is "D" followed by the digits of id in their order
IsDfmSerialOf(ser, id) ==
    LET P == DigitPositions(id)
    IN  /\ Len(ser) = 1 + Cardinality(P) /\ ser[1] = "D"
        /\ \A i \in P : ser[1 + Cardinality({j \in P : j <= i})] = id[i]

\* t is sub without its prefix up to the first colon
IsCleaned(t, sub) ==
    LET C == {i \in 1..Len(sub) : sub[i] = ":"}
    IN  IF C = {} THEN t = sub
        ELSE \E i \in C : (\A j \in C : i <= j) /\ t = SubSeq(sub, i + 1, Len(sub))

\* C17: a DFM message without a decoder-assigned id whose id holds a digit
\* resolves to "D" followed by the id's digits in order, is not dropped as a
\* placeholder, and when stored carries the subtype without its colon prefix
\* as type (id DFM09-12X, subtype DFM:DFM09: serial D0912, type DFM09).
C17_DfmSerial ==
    [][ (/\ Handled /\ last'.msg.type = Some(DFM) /\ ~TruthyS(last'.msg.aprsid)
         /\ TruthyS(last'.msg.id) /\ DigitPositions(Val(last'.msg.id)) # {})
        => /\ last'.ser # None
           /\ IsDfmSerialOf(Val(last'.ser), Val(last'.msg.id))
           /\ last'.outcome \in {"saved", "duplicate"}
           /\ last'.outcome = "saved"
              => /\ Appended /\ NewRow.ser = Val(last'.ser)
                 /\ TruthyS(last'.msg.subtype)
                    => (NewRow.type # None
                          /\ IsCleaned(Val(NewRow.type), Val(last'.msg.subtype)))
           /\ last'.msg.id = Some(IdDfm09)
              => last'.ser = Some(<<"D","0","9","1","2">>) ]_vars

\* the DFM09 frame was stored as serial D0912 with type DFM09
C17_Witness ==
    /\ last.op = "on_message" /\ last.outcome = "saved"
    /\ last.msg.id = Some(IdDfm09) /\ last.msg.subtype = Some(SubDfm09)
    /\ store[Len(store)].ser = <<"D","0","9","1","2">>
    /\ store[Len(store)].type = Some(<<"D","F","M","0","9">>)

\* a raw reading of zero is stored as zero, an absent one as no value
ZeroKept(raw, stored) ==
    /\ raw = Some(0) => stored = Some(0)
    /\ raw = None => stored = None

\* C20: for temperature, humidity, battery voltage, climb, speed and (for a
\* serial with no frequency cached) frequency, a raw value of zero is stored as
\* zero and only an absent raw value is stored as no value.
C20_ZeroIsAValue ==
    [][ (Handled /\ Appended) =>
        /\ ZeroKept(last'.msg.temp, NewRow.temp)
        /\ ZeroKept(last'.msg.humidity, NewRow.humidity)
        /\ ZeroKept(last'.msg.batt, NewRow.batt)
        /\ ZeroKept(last'.msg.vel_v, NewRow.climb)
        /\ ZeroKept(last'.msg.vel_h, NewRow.speed)
        /\ (last'.msg.freq = None /\ NewRow.ser \notin DOMAIN sonde_freq_cache)
           => ZeroKept(last'.msg.tx_frequency, NewRow.freq) ]_vars

\* the messages normalised twice: the identity alphabet, a second serial with
\* another frequency, a message without timestamp
IdemMsgs ==
    IdentityMsgs
    \cup {[BaseMsg EXCEPT !.aprsid = Some(V2), !.tx_frequency = Some(FreqB)],
          [BaseMsg EXCEPT !.tx_frequency = Some(FreqB)],
          [BaseMsg EXCEPT !.timestamp = None]}

\* seconds the clock may have advanced between the two passes
IdemDelays == {0, 1}

\* the two passes over m give the same observation, the second pass starting
\* from the caches the first left and d seconds later
SamePasses(m, d) ==
    LET n1 == Normalize(dfm_id_cache, sonde_freq_cache, store, m, now)
        n2 == Normalize(n1.cache, n1.fcache, store, m, now + d)
    IN  n2.obs = n1.obs

\* C16 as the specification states it: resolving and normalising the same raw
\* message twice in a row, nothing stored in between, gives identical
\* observations for every message and every state of the caches.
C16_AsStated == \A m \in IdemMsgs, d \in IdemDelays : SamePasses(m, d)

\* C16: resolving and normalising the same raw message twice in a row,
\* nothing stored in between, gives identical observations for every message
\* that carries a timestamp and every state of the caches.
C16_Idempotent ==
    \A m \in IdemMsgs, d \in IdemDelays : m.timestamp # None => SamePasses(m, d)

\* both caches hold entries and the first pass over some message changes a
\* cache (evicts, or caches a frequency) while building an observation
C16_Witness ==
    /\ dfm_id_cache # EmptyDict /\ sonde_freq_cache # EmptyDict
    /\ \E m \in IdemMsgs :
          LET n1 == Normalize(dfm_id_cache, sonde_freq_cache, store, m, now)
          IN  /\ n1.obs # None /\ m.timestamp # None
              /\ n1.cache # dfm_id_cache /\ n1.fcache # sonde_freq_cache
              /\ SamePasses(m, 1)

\* a thread is between its `_sock is None` test and the end of its socket work
InSession(t) ==
    pc[t] \in {"connect", "login", "greet", "beacon", "bsend", "body", "except"}

OpenConns == {i \in 1..Len(conns) : conns[i].open}

\* C13: no telemetry packet is written on a connection before that
\* connection's login handshake has received the "#" greeting, whatever the
\* interleaving of _aprs_loop and send_telemetry.
C13_GreetingBeforeTelemetry == \A i \in 1..Len(conns) : ~conns[i].early

\* C14: the ingestion thread and _aprs_loop are never both at work on the
\* session, and _sock is never given a new connection while another
\* connection is still open.
C14_SessionExclusive ==
    /\ ~(InSession("ingest") /\ InSession("loop"))
    /\ Cardinality(OpenConns) <= 1

\* C18: when stop() has discarded the uploader, an HTTP PUT has been attempted
\* for every packet that was held in a per-serial queue when stop() began.
C18_StopFlushes == pc.shutdown = "done" => held \subseteq puts

\* the observation carries the five values send_telemetry requires and its
\* serial is outside the rate-limit window
AprsDue(row) ==
    /\ Len(row.ser) > 0 /\ ~IsPlaceholder(row.ser)
    /\ row.lat # None /\ row.lon # None /\ row.alt # None
    /\ ~(row.ser \in DOMAIN _last_sent /\ now - _last_sent[row.ser] < APRS_INTERVAL)

\* C21: with no transport fault, an accepted observation that has ser, lat,
\* lon, alt and time and is outside the rate-limit window is sent as a
\* telemetry packet and the session stays open, whatever optional readings
\* (heading, speed, climb, frequency, temperature, humidity) are absent.
C21_OptionalFields ==
    [][ (AprsCalled /\ Appended /\ AprsDue(NewRow))
        => (last'.aprsEnd = "sent" /\ _sock' = "open") ]_vars

\* C22: for an observation send_telemetry can format, the rate-limit
\* timestamps change only in a call that actually sent a telemetry packet, and
\* then only for that call's serial.
C22_StampOnSuccess ==
    [][ (AprsCalled /\ Appended /\ AprsEligible(NewRow) /\ _last_sent' # _last_sent)
        => /\ last'.aprsEnd = "sent"
           /\ \A k \in DOMAIN _last_sent' :
                 k # Val(last'.ser)
                 => (k \in DOMAIN _last_sent /\ _last_sent'[k] = _last_sent[k]) ]_vars

\* the (serial, frame) key of the packet built from a stored row
KeyOf(row) ==
    <<format_sondehub_packet(row).pkt.serial, format_sondehub_packet(row).pkt.frame>>

\* C23: after every sondehub.send_telemetry call the dedup set holds at most
\* the capacity of keys; a new key that would make it exceed the capacity
\* empties the set, the new key included, and its packet is uploaded; a new key
\* that fits is added; and the key whose call emptied the set is delivered
\* again when it comes next.
C23_RecentBounded ==
    [][ HubCalled =>
        /\ Cardinality(_recent_packets') <= RECENT_CAPACITY
        /\ HubKey \notin _recent_packets
           => /\ last'.hubEnd = "uploaded" /\ last'.batch # <<>>
              /\ _recent_packets' =
                    IF Cardinality(_recent_packets \cup {HubKey}) > RECENT_CAPACITY
                    THEN {} ELSE _recent_packets \cup {HubKey}
        /\ (/\ last.op = "on_message" /\ last.hubEnd = "uploaded"
            /\ _recent_packets = {} /\ HubKey = KeyOf(store[Len(store)]))
           => (last'.hubEnd = "uploaded" /\ last'.batch # <<>>) ]_vars

\* a key was uploaded, emptied the set, and was uploaded again by the next
\* message carrying it
C23_Witness ==
    /\ last.op = "on_message" /\ last.hubEnd = "uploaded" /\ Len(store) = 3
    /\ HubEligible(store[2]) /\ HubEligible(store[3])
    /\ KeyOf(store[2]) = KeyOf(store[3])
    /\ KeyOf(store[1]) # KeyOf(store[2])
    /\ _recent_packets = {KeyOf(store[3])}

\* C24: at most one beacon packet is sent per beacon interval, whichever of
\* send_telemetry and _aprs_loop sends it (the clock of this specification
\* stands still, so every beacon of a run falls into one interval).
C24_OneBeaconPerInterval ==
    /\ \A i \in 1..Len(conns) : conns[i].beacons <= 1
    /\ \A i, j \in 1..Len(conns) :
          (conns[i].beacons > 0 /\ conns[j].beacons > 0) => i = j

\* C25 as the specification states it: a duplicate message leaves the store,
\* the DFM-serial cache, the frequency cache, the rate-limit timestamps and
\* the dedup set and queues as they were.
C25_AsStated ==
    [][ (Handled /\ last'.outcome = "duplicate")
        => UNCHANGED <<store, dfm_id_cache, sonde_freq_cache, _last_sent,
                       _recent_packets, _serial_queues>> ]_vars

\* C25: a duplicate message reaches no sink and leaves the store, the
\* frequency cache, the session, the rate-limit timestamps and the dedup set
\* and queues as they were; the DFM-serial cache is left as the resolution of
\* the message leaves it (an entry evicted or written).
C25_DuplicateEffects ==
    [][ (Handled /\ last'.outcome = "duplicate")
        => /\ UNCHANGED <<store, sonde_freq_cache, _sock, _last_beacon, _last_sent,
                          _recent_packets, _serial_queues>>
           /\ ~last'.aprs /\ ~last'.hub /\ last'.aprsOps = <<>> /\ last'.puts = 0
           /\ \A k \in DOMAIN dfm_id_cache' :
                 \/ (k \in DOMAIN dfm_id_cache /\ dfm_id_cache'[k] = dfm_id_cache[k])
                 \/ (/\ last'.msg.type = Some(DFM) /\ SourceKey(last'.msg) = Some(k)
                     /\ last'.ser = Some(dfm_id_cache'[k]))
           /\ \A k \in DOMAIN dfm_id_cache :
                 k \notin DOMAIN dfm_id_cache'
                 => (last'.msg.type # Some(DFM) /\ SourceKey(last'.msg) = Some(k)) ]_vars

\* a duplicate was dropped while the caches, the rate-limit timestamps and
\* the dedup set all held entries
C25_Witness ==
    /\ last.op = "on_message" /\ last.outcome = "duplicate"
    /\ store # <<>> /\ sonde_freq_cache # EmptyDict /\ dfm_id_cache # EmptyDict
    /\ _last_sent # EmptyDict /\ _recent_packets # {}

\* an M20 message without decoder-assigned id whose rawid has no "_"
M20Unparsable(m) ==
    /\ m.type = Some(M20) /\ ~TruthyS(m.aprsid)
    /\ m.rawid # None /\ m.id # None
    /\ \A i \in 1..Len(Val(m.rawid)) : Val(m.rawid)[i] # "_"

\* C26 as the specification states it: an M20 message whose rawid cannot be
\* parsed resolves to its id field when that is not empty, else to its source
\* key (source, else rawid, else id), and is stored under that serial.
C26_AsStated ==
    [][ (Handled /\ M20Unparsable(last'.msg))
        => /\ last'.ser = (IF Len(Val(last'.msg.id)) > 0 THEN last'.msg.id
                           ELSE SourceKey(last'.msg))
           /\ last'.outcome \in {"saved", "duplicate"} ]_vars

\* C26: an M20 message whose rawid cannot be parsed resolves to its id field
\* when that is not empty, else to its source field; with such a serial (not a
\* placeholder) it is stored under it unless it is a duplicate, and it is
\* dropped for want of an id only when both are missing.
C26_M20FallsThrough ==
    [][ (Handled /\ M20Unparsable(last'.msg))
        => /\ last'.ser = (IF Len(Val(last'.msg.id)) > 0 THEN last'.msg.id
                           ELSE last'.msg.source)
           /\ last'.outcome # "error"
           /\ last'.outcome = "noid" <=> ~TruthyS(last'.ser)
           /\ (TruthyS(last'.ser) /\ ~PlaceholderSerial(Val(last'.ser)))
              => /\ last'.outcome \in {"saved", "duplicate"}
                 /\ last'.outcome = "saved"
                    => (Appended /\ NewRow.ser = Val(last'.ser)) ]_vars

\* unparsable M20 messages were stored under the id field and under the source
C26_Witness ==
    /\ last.op = "on_message" /\ last.outcome = "saved" /\ M20Unparsable(last.msg)
    /\ last.msg.id = Some(<<>>) /\ store[Len(store)].ser = SrcB
    /\ \E i \in 1..Len(store) : store[i].ser = <<"M","2","0","-","6","7">>

\* the step just taken was an upload_station call (the other steps move the
\* clock or the shutdown thread)
StationCalled == last'.op = "upload_station" /\ UNCHANGED <<now, pc>>

\* the attempts of the recorded call that ended in an exception or a 5xx
Retryable(r) == r \in {"exception", "503"}

\* C27: a call of upload_station makes at most `retries` HTTP attempts; every
\* attempt but the last ended in an exception or a 5xx status; it stops before
\* the last permitted attempt only on a 200 or another status; the upload time
\* changes only on a 200, to the time of the call; and a non-forced call less
\* than 21600 s after the recorded upload, or a call on a disabled uploader,
\* makes no attempt.
C27_StationUpload ==
    [][ StationCalled =>
        LET s == station'
            gated == ~enabled \/ (~s.force /\ now - _last_station_upload < STATION_INTERVAL)
        IN  /\ s.attempts <= STATION_RETRIES
            /\ gated => (s.attempts = 0 /\ UNCHANGED _last_station_upload)
            /\ ~gated =>
                 /\ s.attempts >= 1
                 /\ \A i \in 1..(s.attempts - 1) : Retryable(s.resp[i])
                 /\ s.attempts < STATION_RETRIES => ~Retryable(s.resp[s.attempts])
                 /\ _last_station_upload' =
                       IF s.resp[s.attempts] = "200" THEN now ELSE _last_station_upload
        ]_vars

\* a call retried after an exception and a 5xx and recorded the upload on the
\* third attempt
C27_Witness ==
    /\ station.attempts = STATION_RETRIES /\ station.end = "ok"
    /\ station.resp[1] = "exception" /\ station.resp[2] = "503"
    /\ ~station.force /\ _last_station_upload = now /\ now > StationStart

\* C28: once aprs.stop() has returned there is no session: _sock is None and
\* no connection is open.
C28_StaysClosed == pc.shutdown = "stopped" => (cur = 0 /\ OpenConns = {})

\* C29: the batch send_telemetry took from the queue is handed to
\* upload_telemetry when the call returns; a packet leaves its queue only into
\* that batch or into a hand-off of the same step; nothing is handed over that
\* was not in the batch or a queue; and no packet is in the batch and in a
\* queue at once (so the two paths never upload the same queued packet).
C29_HandedOnce ==
    [][ /\ (pc.ingest = "upload" /\ pc'.ingest = "idle")
           => Packets(batch) \subseteq handed'
        /\ \A p \in Queued(_serial_queues) \ Queued(_serial_queues') :
              p \in Packets(batch') \/ p \in handed'
        /\ handed' \subseteq handed \cup Packets(batch) \cup Queued(_serial_queues)
        /\ Packets(batch') \cap Queued(_serial_queues') = {} ]_vars

====
